---- MODULE Spec2Model ----
(***************************************************************************)
(* Model of newrelic_lambda_layers/awslambda.py: the layer install and     *)
(* uninstall planners (_add_new_relic, _remove_new_relic), their callers   *)
(* (install, uninstall) and the function listing (list_functions).         *)
(*                                                                         *)
(* Strings whose prefix the code tests (layer ARNs, runtime identifiers)   *)
(* are sequences of tokens, so that str.startswith is a real prefix test.  *)
(* A dict is a function whose DOMAIN is the set of keys present.           *)
(***************************************************************************)
EXTENDS Integers, Sequences, FiniteSets, TLC

VARIABLES config, call, hist, listing

vars == <<config, call, hist, listing>>

(***************************************************************************)
(* Bounds of the model.                                                    *)
(***************************************************************************)
MaxLayers == 2
MaxPages == 2
MaxPerPage == 2

(***************************************************************************)
(* Python values.                                                          *)
(***************************************************************************)
None == "<None>"

\* Python truthiness of an optional string: None and "" are falsy.
Truthy(v) == v /= None /\ v /= ""

\* str.startswith(prefix)
StartsWith(s, prefix) ==
    /\ Len(prefix) <= Len(s)
    /\ \A i \in 1..Len(prefix) : s[i] = prefix[i]

\* dict.get(key) with the default None
DictGet(d, k) == IF k \in DOMAIN d THEN d[k] ELSE None

\* d[key] = value
DictSet(d, k, v) == [x \in (DOMAIN d) \cup {k} |-> IF x = k THEN v ELSE d[x]]

\* del d[key], the KeyError swallowed
DictDel(d, k) == [x \in (DOMAIN d) \ {k} |-> d[x]]

EmptyDict == [x \in {} |-> None]

\* del lst[idx] with a 0-based idx
ListDel(lst, idx) == [i \in 1..(Len(lst) - 1) |-> IF i <= idx THEN lst[i] ELSE lst[i + 1]]

(***************************************************************************)
(* utils: the runtime table, the handler test and the ARN prefix.          *)
(***************************************************************************)
Region == "us-east-1"
OtherRegion == "eu-west-1"
VendorAccount == "451483290750"

get_arn_prefix(region) == <<region, VendorAccount>>

Python39 == <<"python", "3.9">>
Java11 == <<"java", "11">>
Java8 == <<"java", "8">>
Provider == <<"provider">>
NoRuntime == <<>>

PyWrapper == "newrelic_lambda_wrapper.handler"
JavaRequest == "com.newrelic.java.HandlerWrapper::handleRequest"
JavaStreams == "com.newrelic.java.HandlerWrapper::handleStreamsRequest"

JavaTypes == {"handleRequest", "handleStreamsRequest"}

RUNTIME_CONFIG_keys == {Python39, Java11}

IsJava(runtime) == StartsWith(runtime, <<"java">>)

JavaHandlers == [t \in JavaTypes |-> IF t = "handleRequest" THEN JavaRequest ELSE JavaStreams]

\* RUNTIME_CONFIG.get(runtime, {}).get("Handler") for a runtime with one handler
SingleHandler(runtime) == IF runtime = Python39 THEN PyWrapper ELSE None

\* RUNTIME_CONFIG.get(runtime, {}).get("Handler", {}).get(java_type)
FlavorHandler(runtime, java_type) ==
    IF runtime = Java11 /\ java_type \in JavaTypes THEN JavaHandlers[java_type] ELSE None

is_valid_handler(runtime, handler) ==
    IF runtime = Java11
    THEN \E t \in JavaTypes : handler = JavaHandlers[t]
    ELSE handler = SingleHandler(runtime)

IsVendorArn(arn, region) == StartsWith(arn, get_arn_prefix(region))

Unsupported(runtime) == runtime = Provider \/ runtime \notin RUNTIME_CONFIG_keys

(***************************************************************************)
(* Function configurations, as get_function returns them.                  *)
(*   Runtime   the runtime identifier, NoRuntime when the key is absent    *)
(*   Handler   the entry point, None when the key is absent                *)
(*   Layers    the ARNs of the attached layers, in order                   *)
(*   Variables Environment.Variables; the provider omits Environment when  *)
(*             there is no variable, which is the empty dict here          *)
(***************************************************************************)
LAMBDA_HANDLER == "NEW_RELIC_LAMBDA_HANDLER"
GENERIC_HANDLER == "NEW_RELIC_GENERIC_HANDLER"
ACCOUNT_ID == "NEW_RELIC_ACCOUNT_ID"

NoArn == <<>>

Returned(patch) == [err |-> "OK", patch |-> <<patch>>]
Raised(err) == [err |-> err, patch |-> <<>>]

\* A filter that tests the vendor account and not the region.
filter_ignoring_region(layer_arn, region) ==
    ~(Len(layer_arn) >= 2 /\ layer_arn[2] = get_arn_prefix(region)[2])

\* The filter of lines 65-78: the ARNs that do not carry the vendor prefix.
_filter_new_relic_layers(layer_arn, region) == ~IsVendorArn(layer_arn, region)

ExistingLayers(layers, region) ==
    SelectSeq(layers, LAMBDA a : _filter_new_relic_layers(a, region))

\* The list whose length decides MultipleLayersException (line 86).
AmbiguityList(new_relic_layers, disco_layers) == new_relic_layers

\* The key the original handler is recorded under (lines 120-127).
MarkerKey(runtime) == IF IsJava(runtime) THEN GENERIC_HANDLER ELSE LAMBDA_HANDLER

\* The condition under which the original handler is recorded (line 119).
RecordsMarker(orig_handler, runtime_handler) == orig_handler /= runtime_handler

\* An environment that records the handler being installed as the original.
PatchedVariablesRecordingTarget(cfg, account_id, runtime_handler) ==
    LET withAccount == DictSet(cfg.Variables, ACCOUNT_ID, account_id)
    IN  IF RecordsMarker(cfg.Handler, runtime_handler)
        THEN DictSet(withAccount, MarkerKey(cfg.Runtime), runtime_handler)
        ELSE withAccount

\* The environment of the update request (lines 107-127).  It is the dict of
\* the input when the input has one, a new dict otherwise.
PatchedVariables(cfg, account_id, runtime_handler) ==
    LET withAccount == DictSet(cfg.Variables, ACCOUNT_ID, account_id)
    IN  IF RecordsMarker(cfg.Handler, runtime_handler)
        THEN DictSet(withAccount, MarkerKey(cfg.Runtime), cfg.Handler)
        ELSE withAccount

\* The handler the install targets (lines 40, 51-53).
TargetHandler(runtime, java_type) ==
    IF IsJava(runtime) THEN FlavorHandler(runtime, java_type) ELSE SingleHandler(runtime)

\* The guard of line 55.
AlreadyInstalled(allow_upgrade, orig_handler, runtime_handler) ==
    ~allow_upgrade /\ orig_handler = runtime_handler

\* _add_new_relic: the update request, or the exception raised.  disco_layers
\* is what utils.get_layers answers for the region and runtime.
_add_new_relic(cfg, region, layer_arn, account_id, java_type, allow_upgrade, disco_layers) ==
    LET runtime == cfg.Runtime
        orig_handler == cfg.Handler
        runtime_handler == TargetHandler(runtime, java_type)
        existing_layers == ExistingLayers(cfg.Layers, region)
        new_relic_layers ==
            IF layer_arn /= NoArn THEN <<layer_arn>> ELSE <<disco_layers[1]>>
    IN  IF ~Truthy(account_id) THEN Raised("MissingAccountId")
        ELSE IF IsJava(runtime) /\ ~Truthy(java_type) THEN Raised("FlavorRequired")
        ELSE IF AlreadyInstalled(allow_upgrade, orig_handler, runtime_handler)
             THEN Raised("AlreadyInstalled")
        ELSE IF Unsupported(runtime) THEN Raised("UnsupportedRuntime")
        ELSE IF layer_arn = NoArn /\ Len(AmbiguityList(<<>>, disco_layers)) > 1
             THEN Raised("MultipleLayers")
        ELSE IF layer_arn = NoArn /\ disco_layers = <<>> THEN Raised("IndexError")
        ELSE Returned([Handler |-> runtime_handler,
                       Variables |-> PatchedVariables(cfg, account_id, runtime_handler),
                       Layers |-> new_relic_layers \o existing_layers])

\* The input config after _add_new_relic: config.copy() is shallow, so the
\* assignments of lines 116-127 land in the caller's Variables dict when the
\* config has one.
AddInputAfter(cfg, result) ==
    IF result.err = "OK" /\ DOMAIN cfg.Variables /= {}
    THEN [cfg EXCEPT !.Variables = result.patch[1].Variables]
    ELSE cfg

\* The removal loop of lines 191-193: a forward iteration over the list that
\* deletes from the same list.  idx is the 0-based position of the iterator.
RECURSIVE RemoveLoop(_, _, _)
RemoveLoop(layers, layer_idx, region) ==
    IF layer_idx >= Len(layers) THEN layers
    ELSE IF IsVendorArn(layers[layer_idx + 1], region)
         THEN RemoveLoop(ListDel(layers, layer_idx), layer_idx + 1, region)
         ELSE RemoveLoop(layers, layer_idx + 1, region)

\* env_handler or env_alt_handler (lines 157-169)
EnvHandler(variables) ==
    IF Truthy(DictGet(variables, LAMBDA_HANDLER))
    THEN DictGet(variables, LAMBDA_HANDLER)
    ELSE DictGet(variables, GENERIC_HANDLER)

\* The deletions of lines 179-187.
WithoutMarkers(variables) ==
    DictDel(DictDel(DictDel(variables, LAMBDA_HANDLER), GENERIC_HANDLER), ACCOUNT_ID)

\* _remove_new_relic: the update request, or the exception raised.
_remove_new_relic(cfg, region) ==
    LET runtime == cfg.Runtime
        orig_handler == IF cfg.Handler = None THEN "" ELSE cfg.Handler
        env_handler == EnvHandler(cfg.Variables)
    IN  IF Unsupported(runtime) THEN Raised("UnsupportedRuntime")
        ELSE IF ~is_valid_handler(runtime, orig_handler) THEN Raised("NotDetected")
        ELSE IF ~Truthy(env_handler) THEN Raised("NotDetected")
        ELSE Returned([Handler |-> env_handler,
                       Variables |-> WithoutMarkers(cfg.Variables),
                       Layers |-> RemoveLoop(cfg.Layers, 0, region)])

\* The input config after _remove_new_relic: the deletions of lines 185 and
\* 193 are made in the dict and the list of the caller's config.
RemoveInputAfter(cfg, result) ==
    IF result.err = "OK"
    THEN [cfg EXCEPT !.Variables = result.patch[1].Variables,
                     !.Layers = result.patch[1].Layers]
    ELSE cfg

\* AwsLambda.update_function_configuration(**update_kwargs)
update_function_configuration(cfg, patch) ==
    [cfg EXCEPT !.Handler = patch.Handler,
                !.Variables = patch.Variables,
                !.Layers = patch.Layers]

(***************************************************************************)
(* list_functions: the functions the generator yields before it ends, and  *)
(* the exception that ends it, if any.                                     *)
(***************************************************************************)
ENABLED_KEY == "-x-new-relic-enabled"

RECURSIVE Flatten(_)
Flatten(pages) == IF pages = <<>> THEN <<>> ELSE Head(pages) \o Flatten(Tail(pages))

\* Lines 15-17: the key is set to True when a layer has the vendor prefix,
\* and is not set otherwise.
Annotate(f, region) ==
    IF \E i \in 1..Len(f.Layers) : IsVendorArn(f.Layers[i], region)
    THEN DictSet(f, ENABLED_KEY, TRUE)
    ELSE f

\* Lines 18-23 for one function: "yield", "skip" or "KeyError".
FilterStep(f, filter_choice) ==
    LET all == filter_choice = "all" \/ ~Truthy(filter_choice)
    IN  IF all THEN "yield"
        ELSE IF filter_choice = "installed"
             THEN IF ENABLED_KEY \notin DOMAIN f THEN "KeyError"
                  ELSE IF f[ENABLED_KEY] THEN "yield" ELSE "skip"
        ELSE IF filter_choice = "not_installed"
             THEN IF ENABLED_KEY \notin DOMAIN f THEN "KeyError"
                  ELSE IF ~f[ENABLED_KEY] THEN "yield" ELSE "skip"
        ELSE "skip"

RECURSIVE Scan(_, _, _, _)
Scan(funcs, region, filter_choice, yielded) ==
    IF funcs = <<>> THEN [err |-> "OK", yielded |-> yielded]
    ELSE LET f == Annotate(Head(funcs), region)
             step == FilterStep(f, filter_choice)
         IN  IF step = "KeyError" THEN [err |-> "KeyError", yielded |-> yielded]
             ELSE Scan(Tail(funcs), region, filter_choice,
                       IF step = "yield" THEN Append(yielded, f) ELSE yielded)

list_functions(pages, region, filter_choice) ==
    Scan(Flatten(pages), region, filter_choice, <<>>)

(***************************************************************************)
(* The values the model draws configurations and arguments from.           *)
(***************************************************************************)
UserAccount == "123456789012"
V1 == <<Region, VendorAccount, "NewRelicLayer:1">>
V2 == <<Region, VendorAccount, "NewRelicLayer:2">>
LayerA == <<Region, UserAccount, "shared-utils:3">>
LayerB == <<OtherRegion, VendorAccount, "NewRelicLayer:1">>
LayerC == <<Region, UserAccount, "custom-agent:1">>

AppHandler == "app.handler"
OldHandler == "old.handler"

InitArns == {V1, LayerA, LayerB}
InitLayers == UNION {[1..n -> InitArns] : n \in 0..MaxLayers}

SupportedRuntimes == RUNTIME_CONFIG_keys
UnsupportedRuntimes == {Java8, Provider, NoRuntime}

\* The handlers a deployed function of the runtime starts with: its own, or
\* an instrumentation handler of the runtime.
InitHandlers(runtime) ==
    IF runtime = NoRuntime THEN {None}
    ELSE IF runtime = Python39 THEN {AppHandler, PyWrapper}
    ELSE IF runtime = Java11 THEN {AppHandler, JavaRequest}
    ELSE {AppHandler}

MakeVariables(lambda_handler, generic_handler, account_id) ==
    LET v == [k \in {LAMBDA_HANDLER, GENERIC_HANDLER, ACCOUNT_ID} |->
                 IF k = LAMBDA_HANDLER THEN lambda_handler
                 ELSE IF k = GENERIC_HANDLER THEN generic_handler ELSE account_id]
    IN  [k \in {x \in DOMAIN v : v[x] /= None} |-> v[k]]

\* The account id is present when a marker is: the tool writes them together.
InitVariables ==
    {MakeVariables(l, g, IF l = None /\ g = None THEN None ELSE "123") :
        l \in {None, "", OldHandler}, g \in {None, OldHandler}}

InitConfigs ==
    UNION {{[Runtime |-> r, Handler |-> h, Layers |-> ls, Variables |-> vs] :
               h \in InitHandlers(r), ls \in InitLayers, vs \in InitVariables} :
           r \in SupportedRuntimes}
    \cup
    UNION {{[Runtime |-> r, Handler |-> h, Layers |-> ls, Variables |-> EmptyDict] :
               h \in InitHandlers(r), ls \in InitLayers} :
           r \in UnsupportedRuntimes}

\* The layer argument and the answer of the layer registry.
LayerChoices ==
    {<<NoArn, d>> : d \in {<<>>, <<V2>>, <<V2, V1>>}} \cup {<<V2, <<>>>>, <<LayerC, <<>>>>}

\* The flavors a call passes: line 45 reads java_type only for a runtime that
\* starts with java, so for the other supported runtime every flavor is the
\* same call.
FlavorChoices(runtime) ==
    IF runtime \in SupportedRuntimes /\ ~IsJava(runtime) THEN {None} ELSE {None} \cup JavaTypes

NoCall ==
    [op |-> "none", layer_arn |-> NoArn, account_id |-> None, java_type |-> None,
     allow_upgrade |-> FALSE, disco_layers |-> <<>>, err |-> "OK", patch |-> <<>>]

NoHist == [stage |-> "none", Handler |-> None, Layers |-> <<>>]

NoListing == [op |-> "none", filter_choice |-> None, pages |-> <<>>, err |-> "OK", yielded |-> <<>>]

(***************************************************************************)
(* State.                                                                  *)
(*   config   the function's configuration at the provider                 *)
(*   call     the last planner call: its arguments, the config it was      *)
(*            given before and after the call, and its outcome             *)
(*   hist     history: the configuration before the first install of the   *)
(*            run of successful operations that led to config              *)
(*   listing  the last list_functions call and its outcome                 *)
(***************************************************************************)
Init ==
    /\ config \in InitConfigs
    /\ call = NoCall @@ [input |-> config, inputAfter |-> config]
    /\ hist = NoHist
    /\ listing = NoListing

\* The history after a successful install.
HistAfterInstall(cfg, allow_upgrade) ==
    IF ~is_valid_handler(cfg.Runtime, cfg.Handler)
    THEN [stage |-> "installed", Handler |-> cfg.Handler, Layers |-> cfg.Layers]
    ELSE IF hist.stage \in {"installed", "upgraded"} /\ allow_upgrade
         THEN [hist EXCEPT !.stage = "upgraded"]
         ELSE NoHist

\* The history after a successful uninstall.
HistAfterUninstall ==
    IF hist.stage = "installed" THEN [hist EXCEPT !.stage = "roundtrip"]
    ELSE IF hist.stage = "upgraded" THEN [hist EXCEPT !.stage = "restored"]
    ELSE NoHist

\* install(region, function_arn, layer_arn, account_id, java_type, allow_upgrade)
Install(layer_arn, account_id, java_type, allow_upgrade, disco_layers) ==
    \E info \in {config} :
    \E result \in {_add_new_relic(info, Region, layer_arn, account_id, java_type,
                                   allow_upgrade, disco_layers)} :
        /\ call' = [op |-> "install", layer_arn |-> layer_arn, account_id |-> account_id,
                    java_type |-> java_type, allow_upgrade |-> allow_upgrade,
                    disco_layers |-> disco_layers, err |-> result.err,
                    patch |-> result.patch, input |-> info,
                    inputAfter |-> AddInputAfter(info, result)]
        /\ config' = IF result.err = "OK"
                     THEN update_function_configuration(config, result.patch[1])
                     ELSE config
        /\ hist' = IF result.err = "OK" THEN HistAfterInstall(info, allow_upgrade) ELSE hist
        /\ UNCHANGED listing

\* uninstall(region, function_arn, layer_arn)
Uninstall ==
    \E info \in {config} :
    \E result \in {_remove_new_relic(info, Region)} :
        /\ call' = [op |-> "uninstall", layer_arn |-> NoArn, account_id |-> None,
                    java_type |-> None, allow_upgrade |-> FALSE, disco_layers |-> <<>>,
                    err |-> result.err, patch |-> result.patch, input |-> info,
                    inputAfter |-> RemoveInputAfter(info, result)]
        /\ config' = IF result.err = "OK"
                     THEN update_function_configuration(config, result.patch[1])
                     ELSE config
        /\ hist' = IF result.err = "OK" THEN HistAfterUninstall ELSE hist
        /\ UNCHANGED listing

Next ==
    \/ \E lc \in LayerChoices, java_type \in FlavorChoices(config.Runtime),
          allow_upgrade \in BOOLEAN :
          /\ Len(ExistingLayers(config.Layers, Region)) <= MaxLayers
          /\ Install(lc[1], "123", java_type, allow_upgrade, lc[2])
    \/ \E account_id \in {None, ""} : Install(V2, account_id, None, FALSE, <<>>)
    \/ Uninstall

Spec == Init /\ [][Next]_vars

(***************************************************************************)
(* The listing on its own: list_functions over the pages the provider      *)
(* returns.                                                                *)
(***************************************************************************)
ListedFunctions ==
    {[FunctionName |-> "plain", Layers |-> <<>>],
     [FunctionName |-> "shared", Layers |-> <<LayerA>>],
     [FunctionName |-> "traced", Layers |-> <<LayerA, V1>>]}

PageChoices == UNION {[1..n -> ListedFunctions] : n \in 0..MaxPerPage}
PagesChoices == UNION {[1..n -> PageChoices] : n \in 0..MaxPages}
FilterChoices == {None, "all", "installed", "not_installed"}

InitList ==
    /\ config = [Runtime |-> Python39, Handler |-> AppHandler, Layers |-> <<>>,
                 Variables |-> EmptyDict]
    /\ call = NoCall @@ [input |-> config, inputAfter |-> config]
    /\ hist = NoHist
    /\ listing = NoListing

\* list(list_functions(region, quiet, filter_choice))
ListFunctions(pages, filter_choice) ==
    \E result \in {list_functions(pages, Region, filter_choice)} :
        /\ listing.op = "none"
        /\ listing' = [op |-> "list", filter_choice |-> filter_choice, pages |-> pages,
                       err |-> result.err, yielded |-> result.yielded]
        /\ UNCHANGED <<config, call, hist>>

NextList == \E pages \in PagesChoices, filter_choice \in FilterChoices :
                ListFunctions(pages, filter_choice)

SpecList == InitList /\ [][NextList]_vars

(***************************************************************************)
(* Properties.                                                             *)
(***************************************************************************)
Installed == call.op = "install" /\ call.err = "OK"
Uninstalled == call.op = "uninstall" /\ call.err = "OK"
PatchOf(c) == c.patch[1]

HasVendorLayer(layers) == \E i \in 1..Len(layers) : StartsWith(layers[i], <<Region, VendorAccount>>)
NonVendorLayers(layers) ==
    SelectSeq(layers, LAMBDA a : ~StartsWith(a, <<Region, VendorAccount>>))

\* C1: the layer list planUninstall returns holds no layer with the vendor's
\* prefix for the region, whatever the number and position of the vendor
\* layers in the input.
C1_UninstallRemovesEveryVendorLayer ==
    Uninstalled => ~HasVendorLayer(PatchOf(call).Layers)

\* C2: with no explicit layer ARN and more than one discovered candidate,
\* planInstall, once it gets to resolve the layer, fails with
\* MultipleLayersException and returns no patch.
C2_AmbiguousDiscoveryAborts ==
    (/\ call.op = "install"
     /\ call.layer_arn = NoArn
     /\ Len(call.disco_layers) > 1
     /\ call.err \notin {"MissingAccountId", "FlavorRequired", "AlreadyInstalled",
                         "UnsupportedRuntime"})
    => call.err = "MultipleLayers" /\ call.patch = <<>>

\* The uninstall that follows a first install of a function whose layers were
\* all non-vendor layers.
RoundTripCase ==
    /\ call.op = "uninstall"
    /\ hist.stage \in {"installed", "roundtrip"}
    /\ ~HasVendorLayer(hist.Layers)
    /\ hist.stage = "roundtrip" => call.err = "OK"

RoundTripRestores ==
    /\ call.err = "OK"
    /\ PatchOf(call).Handler = hist.Handler
    /\ PatchOf(call).Layers = hist.Layers

RoundTripScope ==
    /\ IsVendorArn(Head(call.input.Layers), Region)
    /\ ~(IsJava(call.input.Runtime) /\ Truthy(DictGet(call.input.Variables, LAMBDA_HANDLER)))

C4_UpgradeKeepsOriginalHandler ==
    hist.stage = "upgraded" =>
        DictGet(config.Variables, MarkerKey(config.Runtime)) = hist.Handler

\* C5: planInstall without allow_upgrade on a function whose handler is an
\* instrumentation handler of its runtime fails with "Already installed" and
\* returns no patch (the account id, a layer and, for the java family, the
\* flavor being supplied).
C5_SecondInstallFails ==
    (/\ call.op = "install"
     /\ ~call.allow_upgrade
     /\ Truthy(call.account_id)
     /\ IsJava(call.input.Runtime) => Truthy(call.java_type)
     /\ call.layer_arn /= NoArn \/ call.disco_layers /= <<>>
     /\ call.input.Runtime \in SupportedRuntimes
     /\ is_valid_handler(call.input.Runtime, call.input.Handler))
    => call.err = "AlreadyInstalled" /\ call.patch = <<>>

\* The three conditions of the installation marker.
MarkerConditions(cfg) ==
    /\ is_valid_handler(cfg.Runtime, cfg.Handler)
    /\ HasVendorLayer(cfg.Layers)
    /\ \/ Truthy(DictGet(cfg.Variables, LAMBDA_HANDLER))
       \/ Truthy(DictGet(cfg.Variables, GENERIC_HANDLER))

\* C6: planUninstall returns a patch only when the handler is an
\* instrumentation handler of the runtime, a layer has the vendor prefix and a
\* non-empty original-handler variable is present; on a supported runtime a
\* config that misses one of the three fails with NotDetected.
C6_UninstallNeedsWholeMarker ==
    /\ Uninstalled => MarkerConditions(call.input)
    /\ (/\ call.op = "uninstall"
        /\ call.input.Runtime \in SupportedRuntimes
        /\ ~MarkerConditions(call.input)) => call.err = "NotDetected"

\* C7: with an account id, planInstall on the "provider" runtime or a runtime
\* absent from the table fails with UnsupportedRuntime, whatever the handler,
\* the flavor and allow_upgrade.
C7_UnsupportedRuntimeRejected ==
    (/\ call.op = "install"
     /\ Truthy(call.account_id)
     /\ call.input.Runtime = Provider \/ call.input.Runtime \notin RUNTIME_CONFIG_keys)
    => call.err = "UnsupportedRuntime" /\ call.patch = <<>>

\* The layer planInstall attaches: the explicit one, or else the first
\* discovered one.
AttachedLayer == IF call.layer_arn /= NoArn THEN call.layer_arn ELSE call.disco_layers[1]

\* C8: the layer list planInstall returns is the new layer followed by the
\* input's non-vendor layers in their order, and the one planUninstall
\* returns keeps the input's non-vendor layers in their order, after any
\* sequence of installs, upgrades and uninstalls.
C8_NonVendorLayersKept ==
    /\ Installed =>
          /\ PatchOf(call).Layers = <<AttachedLayer>> \o NonVendorLayers(call.input.Layers)
          /\ config.Layers = PatchOf(call).Layers
    /\ Uninstalled =>
          /\ NonVendorLayers(PatchOf(call).Layers) = NonVendorLayers(call.input.Layers)
          /\ config.Layers = PatchOf(call).Layers

C8_Witness ==
    /\ Installed
    /\ hist.stage = "upgraded"
    /\ HasVendorLayer(call.input.Layers)
    /\ Len(NonVendorLayers(call.input.Layers)) >= 2
    /\ call.input.Layers[2] /= call.input.Layers[3]

Listed == Flatten(listing.pages)
Plain(fs) == [i \in 1..Len(fs) |-> [FunctionName |-> fs[i].FunctionName, Layers |-> fs[i].Layers]]

\* C9: list_functions ends without error and yields the functions with a
\* vendor layer under "installed", those without under "not_installed" and
\* all of them under "all" or no filter, each with a boolean annotation.
C9_ListingFilters ==
    listing.op = "list" =>
    /\ listing.err = "OK"
    /\ listing.filter_choice = "installed" =>
          Plain(listing.yielded) = SelectSeq(Listed, LAMBDA f : HasVendorLayer(f.Layers))
    /\ listing.filter_choice = "not_installed" =>
          Plain(listing.yielded) = SelectSeq(Listed, LAMBDA f : ~HasVendorLayer(f.Layers))
    /\ listing.filter_choice \in {"all", None} => Plain(listing.yielded) = Listed
    /\ \A i \in 1..Len(listing.yielded) :
          /\ ENABLED_KEY \in DOMAIN listing.yielded[i]
          /\ listing.yielded[i][ENABLED_KEY] \in BOOLEAN

\* C10: a planner call leaves the config it was given as it was, and a call
\* that fails returns no patch.
C10_PlannersOnlyRead ==
    call.op /= "none" =>
        /\ call.inputAfter = call.input
        /\ call.err /= "OK" => call.patch = <<>>

====
